---- MODULE Spec2Model ----
(***************************************************************************)
(* A model of the code execution engine (codengine): the runtime registry  *)
(* (app/core/runtime.py), the capability probe and sandbox builder         *)
(* (app/core/sandbox.py), the executor and its process supervisor          *)
(* (app/core/executor.py) and the execute endpoint (app/api/routes.py).    *)
(*                                                                         *)
(* Three specifications share the variables:                               *)
(*   SpecTrunc    truncate_output applied to bounded inputs                *)
(*   SpecResolve  get_runtime_command applied to bounded package trees     *)
(*   Spec         the execute endpoint serving jobs one after another      *)
(***************************************************************************)
EXTENDS Integers, Sequences, FiniteSets, TLC

VARIABLES
    \* ---- truncate_output harness
    tIn,        \* the str passed as output (a sequence of code points)
    tCap,       \* max_size
    tLabel,     \* label ("stdout" / "stderr" as a str)
    tOut,       \* the str returned
    tPc,        \* "in" before the call, "out" after it
    \* ---- the host's file system (read by the registry)
    dirs,       \* the directories: absolute paths, each a sequence of names
    exes,       \* the files with the execute permission set
    files,      \* the files without it
    \* ---- get_runtime_command harness
    rLang,      \* language argument
    rVer,       \* version argument (a str)
    rFound,     \* what its call of find_version_dir returned or raised
    rOut,       \* what the call returned or raised
    rPc,        \* "in" before the call, "out" after it
    \* ---- configuration, host and process-wide state of the service
    settings,   \* app.config.settings: use_bubblewrap and the output caps
    host,       \* whether bwrap is on PATH and what the probe command does
    cache,      \* SandboxManager._bwrap_available and ._bwrap_working
    probes,     \* how many times the probe command has been run
    workspaces, \* the jobs whose workspace directory exists under /tmp
    jobs,       \* how many requests the endpoint has accepted
    http,       \* the response to the last request
    inbox,      \* how many requests wait for the event loop to take them up
    \* ---- the job the endpoint is serving
    pc,         \* where execute_code is
    req,        \* the ExecRequest
    runtime_cmd,\* what get_runtime_command returned
    use_bwrap,  \* what check_bubblewrap_working returned
    full_cmd,   \* the command passed to Popen
    popen_cwd,  \* the cwd passed to Popen (<<>> when none is passed)
    proc,       \* the processes of the job
    outBuf,     \* the bytes read from the child's stdout so far
    errBuf,     \* the bytes read from the child's stderr so far
    elapsed,    \* half seconds since Popen returned
    fired,      \* "no", or what the child was when the first communicate timed out
    result_data,\* what _run_sandboxed_process returned
    pending,    \* what leaving the with block leads to
    outcome,    \* what execute_code returned (or raised)
    \* ---- concurrent callers of check_bubblewrap_working
    callers     \* per thread: position in the method and its local values

truncVars == <<tIn, tCap, tLabel, tOut, tPc>>
fsVars    == <<dirs, exes, files>>
resVars   == <<rLang, rVer, rFound, rOut, rPc>>

svcVars   == <<settings, host, cache, probes, workspaces, jobs, http, inbox>>
jobVars   == <<pc, req, runtime_cmd, use_bwrap, full_cmd, popen_cwd, proc,
               outBuf, errBuf, elapsed, fired, result_data, pending, outcome>>

raceVars  == <<callers>>

vars == <<raceVars, truncVars, fsVars, resVars, svcVars, jobVars>>

\* the values the variables of a harness keep while another specification runs
TruncIdle ==
    /\ tIn = <<>> /\ tCap = 0 /\ tLabel = <<>> /\ tOut = <<>> /\ tPc = "off"

RaceIdle == callers = <<>>

FsIdle == dirs = {} /\ exes = {} /\ files = {}

ResolveIdle ==
    /\ rLang = "" /\ rVer = <<>> /\ rFound = <<>> /\ rOut = <<>> /\ rPc = "off"

NoProc == [launcher |-> "none", prog |-> "none", code |-> 0, bg |-> "none",
           reaped |-> FALSE, limits |-> "none", unsent |-> 0, inpipe |-> 0]

\* the job variables while the endpoint serves no request
JobIdle ==
    /\ pc = "idle" /\ req = <<>> /\ runtime_cmd = <<>> /\ use_bwrap = FALSE
    /\ full_cmd = <<>> /\ popen_cwd = <<>> /\ proc = NoProc
    /\ outBuf = <<>> /\ errBuf = <<>> /\ elapsed = 0 /\ fired = "no"
    /\ result_data = <<>> /\ pending = "none" /\ outcome = <<>>

ServiceIdle ==
    /\ settings = <<>> /\ host = <<>> /\ cache = <<>> /\ probes = 0
    /\ workspaces = {} /\ jobs = 0 /\ http = <<>> /\ inbox = 0
    /\ JobIdle

----------------------------------------------------------------------------
(* Exception messages are kept as sequences of phrases, with the values    *)
(* the f-strings insert left out.                                          *)
(*                                                                         *)
(* Strings.  A str is a sequence of code points; a code point is a one     *)
(* character string, or "U+E9" (e with acute accent), whose UTF-8 encoding *)
(* takes two bytes.  bytes are sequences of byte values: an ASCII byte is  *)
(* the one character string itself, "C3" and "A9" are the lead and the     *)
(* continuation byte of U+E9, and "FF" is a byte no UTF-8 text contains.   *)

\* s repeated n times
Repeat(s, n) == [i \in 1..(n * Len(s)) |-> s[((i - 1) % Len(s)) + 1]]

\* the concatenation of pieces[lo], ..., pieces[hi]
RECURSIVE Concat(_, _, _)
Concat(pieces, lo, hi) ==
    IF lo > hi THEN <<>>
    ELSE IF lo = hi THEN pieces[lo]
    ELSE LET mid == (lo + hi) \div 2
         IN  Concat(pieces, lo, mid) \o Concat(pieces, mid + 1, hi)

\* str.encode('utf-8') of one code point
EncodeChar(c) == IF c = "U+E9" THEN <<"C3", "A9">> ELSE <<c>>

\* str.encode('utf-8')
Encode(s) == Concat([i \in 1..Len(s) |-> EncodeChar(s[i])], 1, Len(s))

\* what the byte at position i of b decodes to under errors='ignore': a lead
\* byte followed by its continuation byte gives U+E9, that continuation
\* byte gives nothing more, a byte that is part of no valid sequence is
\* dropped, an ASCII byte gives itself
DecodeAt(b, i) ==
    IF b[i] = "C3" /\ i + 1 <= Len(b) /\ b[i + 1] = "A9" THEN <<"U+E9">>
    ELSE IF b[i] \in {"C3", "A9", "FF"} THEN <<>>
    ELSE <<b[i]>>

\* bytes.decode('utf-8', errors='ignore')
DecodeIgnore(b) == Concat([i \in 1..Len(b) |-> DecodeAt(b, i)], 1, Len(b))

\* whether bytes.decode('utf-8') (errors='strict') succeeds
Decodable(b) == Encode(DecodeIgnore(b)) = b

\* Python's seq[:k]: the first k items, and for k < 0 all but the last -k
PySliceTo(s, k) ==
    LET n == IF k >= 0 THEN (IF k < Len(s) THEN k ELSE Len(s))
             ELSE (IF Len(s) + k > 0 THEN Len(s) + k ELSE 0)
    IN  SubSeq(s, 1, n)

DigitChars == <<"0", "1", "2", "3", "4", "5", "6", "7", "8", "9">>

\* str(n) of a natural number, as an f-string formats it
RECURSIVE IntToStr(_)
IntToStr(n) ==
    IF n < 10 THEN <<DigitChars[n + 1]>>
    ELSE IntToStr(n \div 10) \o <<DigitChars[(n % 10) + 1]>>

StdoutLabel == <<"s", "t", "d", "o", "u", "t">>
StderrLabel == <<"s", "t", "d", "e", "r", "r">>

----------------------------------------------------------------------------
(* CodeExecutor.truncate_output                                            *)

\* the f-string of the warning line
TruncWarning(label, max_size) ==
    <<"\n", "\n", "[", "T", "R", "U", "N", "C", "A", "T", "E", "D", ":", " ">>
    \o label
    \o <<" ", "e", "x", "c", "e", "e", "d", "e", "d", " ">>
    \o IntToStr(max_size)
    \o <<" ", "b", "y", "t", "e", "s", " ", "(">>
    \o IntToStr(max_size \div 1024)
    \o <<" ", "K", "B", ")", "]", "\n">>

truncate_output(output, max_size, label) ==
    LET output_bytes == Encode(output)
        warning      == TruncWarning(label, max_size)
        warning_size == Len(Encode(warning))
        truncated0   == DecodeIgnore(PySliceTo(output_bytes, max_size))
        truncated    == IF Len(output_bytes) > max_size - warning_size
                        THEN DecodeIgnore(PySliceTo(output_bytes,
                                                    max_size - warning_size))
                        ELSE truncated0
    IN  IF Len(output_bytes) <= max_size THEN output
        ELSE truncated \o warning

----------------------------------------------------------------------------
(* The file system and os.path.  A path string is a str; the file system   *)
(* holds resolved paths, each the sequence of the names from the root.     *)

NmPackages == <<"p", "a", "c", "k", "a", "g", "e", "s">>
NmPython   == <<"p", "y", "t", "h", "o", "n">>
NmPython3  == <<"p", "y", "t", "h", "o", "n", "3">>
NmNode     == <<"n", "o", "d", "e">>
NmBin      == <<"b", "i", "n">>
NmUsr      == <<"u", "s", "r">>
Nm18       == <<"1", "8">>
NmTmp      == <<"t", "m", "p">>

RootDir == <<>>

\* what resolving a path gives when a component is missing or not a directory
NoEntry == <<<<"/">>>>

\* the code points in ASCII order, to compare str values as Python does
AsciiOrder ==
    <<"\n", " ", "(", ")", ".", "/", "0", "1", "2", "3", "4", "5", "6", "7",
      "8", "9", ":", "A", "B", "C", "D", "E", "I", "K", "M", "N", "O", "R",
      "T", "U", "[", "]", "a", "b", "c", "d", "e", "g", "h", "i", "k", "l",
      "m", "n", "o", "p", "r", "s", "t", "u", "x", "y">>

CharCode(c) == CHOOSE i \in 1..Len(AsciiOrder) : AsciiOrder[i] = c

\* a < b for str values (lexicographic by code point)
RECURSIVE StrLessFrom(_, _, _)
StrLessFrom(a, b, i) ==
    IF i > Len(b) THEN FALSE
    ELSE IF i > Len(a) THEN TRUE
    ELSE IF a[i] = b[i] THEN StrLessFrom(a, b, i + 1)
    ELSE CharCode(a[i]) < CharCode(b[i])

StrLess(a, b) == StrLessFrom(a, b, 1)

\* str.startswith
StartsWith(s, prefix) ==
    /\ Len(prefix) <= Len(s)
    /\ SubSeq(s, 1, Len(prefix)) = prefix

\* sorted(names)[-1]
SortedLast(names) ==
    CHOOSE m \in names : \A n \in names : n = m \/ StrLess(n, m)

\* os.path.join(a, b) on POSIX
PathJoin(a, b) ==
    IF StartsWith(b, <<"/">>) THEN b
    ELSE IF a = <<>> \/ a[Len(a)] = "/" THEN a \o b
    ELSE a \o <<"/">> \o b

\* path.split('/')
RECURSIVE SplitFrom(_, _, _)
SplitFrom(s, i, cur) ==
    IF i > Len(s) THEN <<cur>>
    ELSE IF s[i] = "/" THEN <<cur>> \o SplitFrom(s, i + 1, <<>>)
    ELSE SplitFrom(s, i + 1, Append(cur, s[i]))

\* the kernel's walk over the components of an absolute path: "" and "."
\* stay, ".." goes to the parent, a name goes to the child; each step needs
\* the place reached so far to be a directory
RECURSIVE WalkFrom(_, _, _)
WalkFrom(comps, i, cur) ==
    IF i > Len(comps) THEN cur
    ELSE IF cur \notin dirs THEN NoEntry
    ELSE IF comps[i] \in {<<>>, <<".">>} THEN WalkFrom(comps, i + 1, cur)
    ELSE IF comps[i] = <<".", ".">>
         THEN WalkFrom(comps, i + 1,
                       IF cur = RootDir THEN cur
                       ELSE SubSeq(cur, 1, Len(cur) - 1))
    ELSE WalkFrom(comps, i + 1, Append(cur, comps[i]))

\* where an absolute path string leads (NoEntry when it leads nowhere)
RealPath(p) == WalkFrom(SplitFrom(p, 1, <<>>), 1, RootDir)

\* os.path.isdir, os.path.exists, os.access(path, os.X_OK)
IsDir(p)      == RealPath(p) \in dirs
PathExists(p) == RealPath(p) \in (dirs \cup exes \cup files)
AccessX(p)    == RealPath(p) \in (dirs \cup exes)

\* os.listdir: the names of the entries of a directory
ListDir(p) ==
    LET d == RealPath(p)
    IN  {e[Len(e)] : e \in {q \in (dirs \cup exes \cup files) :
                                /\ Len(q) = Len(d) + 1
                                /\ SubSeq(q, 1, Len(d)) = d}}

----------------------------------------------------------------------------
(* RuntimeManager (app/core/runtime.py)                                    *)

\* settings.packages_dir
packages_dir == <<"/">> \o NmPackages

\* str.lower() on the language names the requests use
Lower(language) == IF language = "Python" THEN "python" ELSE language

LangStr(language) ==
    IF language = "python" THEN NmPython
    ELSE IF language = "node" THEN NmNode
    ELSE <<"?">>

SUPPORTED_LANGUAGES ==
    [l \in {"python", "node"} |->
        [base_dir     |-> packages_dir \o <<"/">> \o LangStr(l),
         binary_names |-> IF l = "python" THEN <<NmPython3, NmPython>>
                          ELSE <<NmNode>>,
         bin_subdir   |-> NmBin]]

\* RuntimeManager.find_version_dir: the path string returned, or the
\* RuntimeNotFoundException raised
find_version_dir(base_dir, requested_version) ==
    LET exact_path == PathJoin(base_dir, requested_version)
        candidates == {d \in ListDir(base_dir) :
                          /\ IsDir(PathJoin(base_dir, d))
                          /\ StartsWith(d, requested_version)}
    IN  IF IsDir(exact_path)
        THEN [raised |-> "none", path |-> exact_path]
        ELSE IF IsDir(base_dir) /\ candidates # {}
        THEN [raised |-> "none",
              path   |-> PathJoin(base_dir, SortedLast(candidates))]
        ELSE [raised |-> "RuntimeNotFoundException",
              msg    |-> <<"Runtime version '...' not found in ...">>]

\* (mutant) the loop without the os.access check
RECURSIVE FirstExistingFrom(_, _, _)
FirstExistingFrom(bin_dir, binary_names, i) ==
    IF i > Len(binary_names) THEN <<>>
    ELSE LET binary_path == PathJoin(bin_dir, binary_names[i])
         IN  IF PathExists(binary_path)
             THEN binary_path
             ELSE FirstExistingFrom(bin_dir, binary_names, i + 1)

\* the loop over binary_names: the first candidate that exists and is
\* executable, <<>> when the loop ends without one
RECURSIVE FirstBinaryFrom(_, _, _)
FirstBinaryFrom(bin_dir, binary_names, i) ==
    IF i > Len(binary_names) THEN <<>>
    ELSE LET binary_path == PathJoin(bin_dir, binary_names[i])
         IN  IF PathExists(binary_path) /\ AccessX(binary_path)
             THEN binary_path
             ELSE FirstBinaryFrom(bin_dir, binary_names, i + 1)

\* RuntimeManager.get_runtime_command: the command returned, or the
\* exception raised
get_runtime_command(language0, version) ==
    LET language == Lower(language0)
    IN  IF language \notin DOMAIN SUPPORTED_LANGUAGES
        THEN [raised |-> "UnsupportedLanguageException",
              msg    |-> <<"Language '...' is not supported.">>]
        ELSE
        LET lang_config == SUPPORTED_LANGUAGES[language]
            found       == find_version_dir(lang_config.base_dir, version)
        IN  IF found.raised # "none"
            THEN [raised |-> "RuntimeNotFoundException",
                  msg    |-> <<"Runtime for ... version ... not found: ">>
                             \o found.msg]
            ELSE
            LET bin_dir == PathJoin(found.path, lang_config.bin_subdir)
                binary  == FirstBinaryFrom(bin_dir,
                                           lang_config.binary_names, 1)
            IN  IF binary # <<>>
                THEN [raised |-> "none", cmd |-> <<binary>>,
                      version_dir |-> found.path]
                ELSE [raised |-> "RuntimeNotFoundException",
                      msg    |-> <<"No executable binary found in ...">>]

----------------------------------------------------------------------------
(* The package trees and requests the registry is tried on                 *)

MaxInstalled == 2    \* at most MaxInstalled python versions are installed
MaxVerLen    == 3    \* a requested version has at most MaxVerLen characters

\* names an installed python version directory can have
VersionNames == {<<"3">>, <<"3", "3">>, <<"3", ".", "3">>, <<"3", ".", "3", "3">>}

\* what an installed version directory holds:
\*   "nobin"  no bin/ directory
\*   "both"   bin/python3 and bin/python, both executable
\*   "py"     bin/python only, executable
\*   "py3off" bin/python3 without the execute permission, bin/python with it
BinKinds == {"nobin", "both", "py", "py3off"}

PyBase == <<NmPackages, NmPython>>

RECURSIVE StrsUpTo(_)
StrsUpTo(n) ==
    IF n = 0 THEN {<<>>}
    ELSE LET shorter == StrsUpTo(n - 1)
         IN  shorter \cup {Append(s, c) : s \in shorter, c \in {"3", ".", "/"}}

\* the version strings requested: every string of up to MaxVerLen of the
\* characters 3 . / and two longer ones
Versions ==
    StrsUpTo(MaxVerLen)
        \cup {<<"/">> \o NmUsr, <<".", ".", "/">> \o NmNode \o <<"/">> \o Nm18}

Languages == {"python", "Python", "node", "ruby"}

\* the host: /usr/bin/python3, the node runtime 18 and the python runtimes
\* `installed`, each holding what binOf says
HostDirs == {RootDir, <<NmUsr>>, <<NmUsr, NmBin>>, <<NmPackages>>,
             <<NmPackages, NmNode>>, <<NmPackages, NmNode, Nm18>>,
             <<NmPackages, NmNode, Nm18, NmBin>>}

HostExes == {<<NmUsr, NmBin, NmPython3>>,
             <<NmPackages, NmNode, Nm18, NmBin, NmNode>>}

FsOf(hasBase, installed, binOf) ==
    [d |-> HostDirs
            \cup (IF hasBase THEN {PyBase} ELSE {})
            \cup {Append(PyBase, v) : v \in installed}
            \cup {PyBase \o <<v, NmBin>> :
                    v \in {w \in installed : binOf[w] # "nobin"}},
     x |-> HostExes
            \cup {PyBase \o <<v, NmBin, NmPython3>> :
                    v \in {w \in installed : binOf[w] = "both"}}
            \cup {PyBase \o <<v, NmBin, NmPython>> :
                    v \in {w \in installed : binOf[w] # "nobin"}},
     f |-> {PyBase \o <<v, NmBin, NmPython3>> :
                    v \in {w \in installed : binOf[w] = "py3off"}}]

FsChoices ==
    {FsOf(FALSE, {}, <<>>)}
        \cup {FsOf(TRUE, inst, binOf) :
                inst \in {s \in SUBSET VersionNames : Cardinality(s) <= MaxInstalled},
                binOf \in [VersionNames -> BinKinds]}

InitFs == \E fs \in FsChoices : dirs = fs.d /\ exes = fs.x /\ files = fs.f

InitResolve ==
    /\ InitFs
    /\ rLang \in Languages
    /\ rVer \in Versions
    /\ rFound = <<>>
    /\ rOut = <<>>
    /\ rPc = "in"
    /\ TruncIdle
    /\ RaceIdle
    /\ ServiceIdle

Resolve ==
    /\ rPc = "in"
    /\ rFound' = IF Lower(rLang) \in DOMAIN SUPPORTED_LANGUAGES
                 THEN find_version_dir(
                          SUPPORTED_LANGUAGES[Lower(rLang)].base_dir, rVer)
                 ELSE <<>>
    /\ rOut' = get_runtime_command(rLang, rVer)
    /\ rPc' = "out"
    /\ UNCHANGED <<rLang, rVer, fsVars, raceVars, truncVars, svcVars, jobVars>>

NextResolve == Resolve

SpecResolve == InitResolve /\ [][NextResolve]_vars

----------------------------------------------------------------------------
(* SandboxManager (app/core/sandbox.py)                                    *)

BoolStr(b) == IF b THEN "True" ELSE "False"

\* validate_bubblewrap_available: the cache after the call (the value
\* returned is its `available`)
validate_bubblewrap_available(c) ==
    IF c.available # "None" THEN c
    ELSE [c EXCEPT !.available = BoolStr(host.installed)]

\* (mutant) a check that runs the probe command at every query
check_bubblewrap_uncached(c) ==
    LET c1 == validate_bubblewrap_available(c)
    IN  IF c1.available # "True"
        THEN [cache |-> [c1 EXCEPT !.working = "False"], ran |-> 0]
        ELSE [cache |-> [c1 EXCEPT !.working =
                            IF host.probe = "exit0" THEN "True"
                            ELSE "False"],
              ran   |-> 1]

\* check_bubblewrap_working: the cache after the call (the value returned is
\* its `working`) and whether the probe command was run
check_bubblewrap_working(c) ==
    IF c.working # "None" THEN [cache |-> c, ran |-> 0]
    ELSE LET c1 == validate_bubblewrap_available(c)
         IN  IF c1.available # "True"
             THEN [cache |-> [c1 EXCEPT !.working = "False"], ran |-> 0]
             ELSE [cache |-> [c1 EXCEPT !.working =
                                 IF host.probe = "exit0" THEN "True"
                                 ELSE "False"],
                   ran   |-> 1]

ArgBwrap      == <<"b", "w", "r", "a", "p">>
ArgRoBind     == <<"-", "-", "r", "o", "-", "b", "i", "n", "d">>
ArgBind       == <<"-", "-", "b", "i", "n", "d">>
ArgChdir      == <<"-", "-", "c", "h", "d", "i", "r">>
ArgProc       == <<"-", "-", "p", "r", "o", "c">>
ArgDev        == <<"-", "-", "d", "e", "v">>
ArgTmpfs      == <<"-", "-", "t", "m", "p", "f", "s">>
ArgSep        == <<"-", "-">>
ArgUnshareNet == <<"-", "-", "u", "n", "s", "h", "a", "r", "e", "-", "n", "e", "t">>
PathUsr       == <<"/", "u", "s", "r">>
PathLib       == <<"/", "l", "i", "b">>
PathLib64     == <<"/", "l", "i", "b", "6", "4">>
PathBin       == <<"/", "b", "i", "n">>
PathApp       == <<"/", "a", "p", "p">>
PathProcfs    == <<"/", "p", "r", "o", "c">>
PathDevfs     == <<"/", "d", "e", "v">>
PathTmp       == <<"/", "t", "m", "p">>

\* (mutant) list.append(x): x goes after the last item
InsertAfterLast(list, x) == list \o <<x>>

\* list.insert(-1, x): x goes before the last item
InsertBeforeLast(list, x) ==
    SubSeq(list, 1, Len(list) - 1) \o <<x, list[Len(list)]>>

build_bubblewrap_command(workdir, cmd, internet_enabled) ==
    LET cmd0 == <<ArgBwrap,
                  ArgRoBind, PathUsr, PathUsr,
                  ArgRoBind, PathLib, PathLib,
                  ArgRoBind, PathLib64, PathLib64,
                  ArgRoBind, PathBin, PathBin,
                  ArgRoBind, packages_dir, packages_dir,
                  ArgBind, workdir, PathApp,
                  ArgChdir, PathApp,
                  ArgProc, PathProcfs,
                  ArgDev, PathDevfs,
                  ArgTmpfs, PathTmp,
                  ArgSep>>
        cmd1 == IF ~internet_enabled
                THEN InsertBeforeLast(cmd0, ArgUnshareNet)
                ELSE cmd0
    IN  cmd1 \o cmd

\* (mutant) a direct command that names the working directory first
build_direct_in_workdir(workdir, cmd) == <<workdir>> \o cmd

build_direct_command(workdir, cmd) == cmd

----------------------------------------------------------------------------
(* The records execute_code returns (app/models/schemas.py and the return  *)
(* statements of CodeExecutor.execute_code)                                *)

NoMessage == <<>>      \* message=None

RunResult(stdout, stderr, output, code, signal, message, status) ==
    [stdout |-> stdout, stderr |-> stderr, output |-> output, code |-> code,
     signal |-> signal, message |-> message, status |-> status]

ExecResult(request, run) ==
    [language |-> request.language, version |-> request.version, run |-> run]

\* what execute_code hands to its caller: the record returned and the return
\* statement that built it
Returned(site, result) == [kind |-> "returned", site |-> site, result |-> result]

\* (mutant) the resolution failure reported as a general failure, with the
\* reason on stderr
RuntimeErrorAsGeneral(request, msg) ==
    ExecResult(request, RunResult(<<>>, msg, msg, 1, "None", msg, "error"))

\* except (RuntimeNotFoundException, UnsupportedLanguageException)
RuntimeErrorResult(request, msg) ==
    ExecResult(request, RunResult(<<>>, <<>>, <<>>, 127, "None", msg, "error"))

\* except FileSystemException
FsErrorResult(request, msg) ==
    ExecResult(request, RunResult(<<>>, <<>>, <<>>, 1, "None", msg, "error"))

\* except SandboxExecutionException
SandboxErrorResult(request, msg) ==
    ExecResult(request, RunResult(<<>>, msg, msg, 1, "None", msg, "error"))

\* (mutant) a catch-all that lets the exception go on to the caller
CatchAllReraise(request, msg) == [kind |-> "raised", site |-> "none", msg |-> msg]

\* except Exception: the catch-all of execute_code
CatchAll(request, msg) ==
    Returned("catch_all",
             ExecResult(request,
                        RunResult(<<>>, <<>>, <<>>, 1, "None",
                                  <<"Internal error: ">> \o msg, "error")))

TimeoutBanner ==
    <<"T", "I", "M", "E", "O", "U", "T", ":", " ", "E", "x", "e", "c", "u",
      "t", "i", "o", "n", " ", "e", "x", "c", "e", "e", "d", "e", "d", " ",
      "t", "i", "m", "e", " ", "l", "i", "m", "i", "t", "\n">>

\* (mutant) a final return whose output is put together from the streams as
\* they were captured
AssembledResultRaw(request, data) ==
    LET stdout == truncate_output(data.stdout, settings.max_output_size,
                                  StdoutLabel)
        stderr == truncate_output(data.stderr, settings.max_stderr_size,
                                  StderrLabel)
    IN  ExecResult(request,
                   RunResult(stdout, stderr, data.stdout \o data.stderr,
                             data.exit_code, data.signal, NoMessage, "None"))

\* the return statement at the end of execute_code
AssembledResult(request, data) ==
    LET stdout == truncate_output(data.stdout, settings.max_output_size,
                                  StdoutLabel)
        stderr == truncate_output(data.stderr, settings.max_stderr_size,
                                  StderrLabel)
        output == IF stderr = <<>> THEN stdout
                  ELSE IF stdout # <<>> THEN stdout \o stderr ELSE stderr
    IN  ExecResult(request,
                   RunResult(stdout, stderr, output, data.exit_code,
                             data.signal, NoMessage, "None"))

----------------------------------------------------------------------------
(* Spec: the execute endpoint.  The handler is a coroutine that calls the  *)
(* blocking execute_code itself, so the event loop serves one request      *)
(* from its receipt to its response before it takes the next.              *)

MaxJobs      == 2     \* requests served in a run
MaxTimeLimit == 1     \* time_limit is 1 .. MaxTimeLimit half seconds
SmallCap     == 8     \* an output cap below the length of the trailer
BigCap       == 100   \* an output cap above trailer plus timeout banner
LongLen      == 110   \* the length of a long output of the program

\* timeouts of the two communicate calls, in half seconds
DeadlineMargin == 1   \* timeout=time_limit + 0.5
\* (mutant) a drain that waits 2 s
DrainGraceSlow == DeadlineMargin + 3
DrainGrace     == 2   \* timeout=1

\* exit statuses of the program (a negative one is death by that signal)
ExitCodes == {0, 3, -11}

MainPy == <<"m", "a", "i", "n", ".", "p", "y">>

\* the requests sent to the endpoint
\* a second file of a request, in a subdirectory
LibPy == <<"a", "/", "b">>

Requests ==
    [language     : {"python", "Python", "ruby"},
     version      : {<<"3", ".">>, <<"3", "3">>, <<"9">>},
     files        : {<<[name |-> MainPy, content |-> <<"x">>],
                        [name |-> LibPy, content |-> <<"y">>]>>},
     stdin        : {<<>>},
     args         : {<<<<"-", "v">>>>},
     time_limit   : 1..MaxTimeLimit,
     memory_limit : {256},
     internet     : BOOLEAN]

\* Settings.max_time_limit (seconds) and Settings.max_memory_limit (MB) as
\* shipped
DefaultMaxTimeLimit   == 300
DefaultMaxMemoryLimit == 2048

SettingsChoices ==
    {[use_bubblewrap   |-> u, max_output_size |-> c, max_stderr_size |-> c,
      max_time_limit   |-> DefaultMaxTimeLimit,
      max_memory_limit |-> DefaultMaxMemoryLimit] :
        u \in BOOLEAN, c \in {SmallCap, BigCap}}

\* bwrap missing; installed and working; installed, but the probe exits 1
\* (or times out, or cannot be started)
HostChoices ==
    {[installed |-> FALSE, probe |-> "raises"],
     [installed |-> TRUE, probe |-> "exit0"],
     [installed |-> TRUE, probe |-> "exit1"]}

\* python 3.3 installed with both binaries, python 33 without a bin/
\* and the directory /tmp that tempfile uses
ServiceFs ==
    LET fs == FsOf(TRUE, {<<"3", ".", "3">>, <<"3", "3">>},
                   [v \in VersionNames |->
                       IF v = <<"3", "3">> THEN "nobin" ELSE "both"])
    IN  [d |-> fs.d \cup {<<NmTmp>>}, x |-> fs.x, f |-> fs.f]

Init ==
    /\ TruncIdle
    /\ RaceIdle
    /\ ResolveIdle
    /\ dirs = ServiceFs.d /\ exes = ServiceFs.x /\ files = ServiceFs.f
    /\ settings \in SettingsChoices
    /\ host \in HostChoices
    /\ cache = [available |-> "None", working |-> "None"]
    /\ probes = 0
    /\ workspaces = {} /\ jobs = 0 /\ http = <<>> /\ inbox = 0
    /\ JobIdle

\* ExecRequest.validate_language: the language lowercased, when supported
validate_language(v) == Lower(v)
LanguageValid(v) == Lower(v) \in {"python", "node"}

\* ExecRequest.time_limit: Field(ge=0.1, le=300.0), in seconds; the lower
\* bound in tenths of a second
TimeLimitGeTenths == 1
TimeLimitLe       == 300

\* ExecRequest.memory_limit: Field(ge=32, le=2048), in MB
MemoryLimitGe == 32
MemoryLimitLe == 2048

\* the range constraints of the two limit fields
LimitsValid(r) ==
    /\ r.time_limit * 10 >= TimeLimitGeTenths
    /\ r.time_limit <= TimeLimitLe
    /\ r.memory_limit >= MemoryLimitGe
    /\ r.memory_limit <= MemoryLimitLe

\* pydantic's validation of the request body
RequestValid(r) == LanguageValid(r.language) /\ LimitsValid(r)

\* tempfile.TemporaryDirectory(): the directory of the job being served
workdir == <<"/", "t", "m", "p", "/", "t", "m", "p">> \o IntToStr(jobs)

\* where workdir leads in the file system
WorkRoot == <<NmTmp, NmTmp \o IntToStr(jobs)>>

\* q is root or lies below it
Under(q, root) == Len(q) >= Len(root) /\ SubSeq(q, 1, Len(root)) = root

\* str.rstrip('/')
RECURSIVE RStripSlash(_)
RStripSlash(s) ==
    IF s # <<>> /\ s[Len(s)] = "/" THEN RStripSlash(SubSeq(s, 1, Len(s) - 1))
    ELSE s

\* os.path.dirname on POSIX
DirName(p) ==
    LET slashes == {i \in 1..Len(p) : p[i] = "/"}
        head    == IF slashes = {} THEN <<>>
                   ELSE SubSeq(p, 1, CHOOSE i \in slashes :
                                         \A j \in slashes : j <= i)
    IN  IF \A i \in 1..Len(head) : head[i] = "/" THEN head
        ELSE RStripSlash(head)

\* the kernel's walk in a file system whose directories are d
RECURSIVE WalkIn(_, _, _, _)
WalkIn(comps, i, cur, d) ==
    IF i > Len(comps) THEN cur
    ELSE IF cur \notin d THEN NoEntry
    ELSE IF comps[i] \in {<<>>, <<".">>} THEN WalkIn(comps, i + 1, cur, d)
    ELSE IF comps[i] = <<".", ".">>
         THEN WalkIn(comps, i + 1,
                     IF cur = RootDir THEN cur
                     ELSE SubSeq(cur, 1, Len(cur) - 1), d)
    ELSE WalkIn(comps, i + 1, Append(cur, comps[i]), d)

\* os.makedirs(path, exist_ok=True) where the directories are d and the
\* other entries are f: every missing directory on the way is made, "" and
\* "." stay, ".." goes to the parent; an entry on the way that is not a
\* directory raises
RECURSIVE MakeDirsFrom(_, _, _, _, _)
MakeDirsFrom(comps, i, cur, d, f) ==
    IF i > Len(comps) THEN [raised |-> "none", d |-> d]
    ELSE IF comps[i] \in {<<>>, <<".">>}
         THEN MakeDirsFrom(comps, i + 1, cur, d, f)
    ELSE IF comps[i] = <<".", ".">>
         THEN MakeDirsFrom(comps, i + 1,
                           IF cur = RootDir THEN cur
                           ELSE SubSeq(cur, 1, Len(cur) - 1), d, f)
    ELSE IF Append(cur, comps[i]) \in f THEN [raised |-> "OSError", d |-> d]
    ELSE MakeDirsFrom(comps, i + 1, Append(cur, comps[i]),
                      d \cup {Append(cur, comps[i])}, f)

MakeDirs(p, d, f) == MakeDirsFrom(SplitFrom(p, 1, <<>>), 1, RootDir, d, f)

\* open(path, 'w') where the directories are d and the regular files f:
\* the file is created or emptied; a path that names a directory or whose
\* parent is missing raises
OpenWrite(p, d, f) ==
    LET comps  == SplitFrom(p, 1, <<>>)
        last   == comps[Len(comps)]
        parent == WalkIn(SubSeq(comps, 1, Len(comps) - 1), 1, RootDir, d)
    IN  IF \/ last \in {<<>>, <<".">>, <<".", ".">>}
           \/ parent \notin d
           \/ Append(parent, last) \in d
        THEN [raised |-> "OSError", f |-> f]
        ELSE [raised |-> "none", f |-> f \cup {Append(parent, last)}]

\* (mutant) a prepare_workspace that writes nothing
prepare_nothing(fileList, wd, d, f) == [raised |-> "none", d |-> d, f |-> f]

\* CodeExecutor.prepare_workspace from file number i on: the directories and
\* files afterwards, and whether FileSystemException was raised
RECURSIVE PrepareFrom(_, _, _, _, _)
PrepareFrom(fileList, i, wd, d, f) ==
    IF i > Len(fileList) THEN [raised |-> "none", d |-> d, f |-> f]
    ELSE LET file_path  == PathJoin(wd, fileList[i].name)
             parent_dir == DirName(file_path)
             made       == IF parent_dir # <<>>
                           THEN MakeDirs(parent_dir, d, f \cup exes)
                           ELSE [raised |-> "none", d |-> d]
             opened     == OpenWrite(file_path, made.d, f)
         IN  IF made.raised # "none"
             THEN [raised |-> "FileSystemException", d |-> made.d, f |-> f]
             ELSE IF opened.raised # "none"
             THEN [raised |-> "FileSystemException", d |-> made.d, f |-> f]
             ELSE PrepareFrom(fileList, i + 1, wd, made.d, opened.f)

prepare_workspace(fileList, wd, d, f) == PrepareFrom(fileList, 1, wd, d, f)

\* what the file system does to prepare_workspace: it works, or a write fails
\* (disk full, quota)
PrepareEvents == {"ok", "OSError"}

\* the process subprocess.Popen started
Child == IF use_bwrap THEN proc.launcher ELSE proc.prog

\* whether a write end of the stdout/stderr pipes is still open
PipesOpen ==
    proc.launcher = "running" \/ proc.prog = "running" \/ proc.bg = "piped"

\* whether a process of the job is alive
JobAlive == proc.prog = "running" \/ proc.bg \in {"piped", "detached"}

\* f"signal_{abs(exit_code)}"
SignalName(exit_code) ==
    CASE exit_code = -11 -> "signal_11"
      [] exit_code = -9  -> "signal_9"
      [] OTHER           -> "signal_n"

\* the status bwrap exits with when the program ended with status c
LauncherStatus(c) == IF c < 0 THEN 128 - c ELSE c

\* a client sends a request to POST /api/v2/execute; it waits until the
\* event loop runs the handler for it
Submit ==
    /\ inbox + jobs < MaxJobs
    /\ inbox' = inbox + 1
    /\ UNCHANGED <<raceVars, truncVars, fsVars, resVars, settings, host,
                   cache, probes, workspaces, jobs, http, jobVars>>

\* GET /health: both capability queries, answered by the event loop
Health ==
    /\ pc = "idle"
    /\ LET c1      == validate_bubblewrap_available(cache)
           checked == IF c1.available = "True"
                      THEN check_bubblewrap_working(c1)
                      ELSE [cache |-> c1, ran |-> 0]
       IN  /\ cache' = checked.cache
           /\ probes' = probes + checked.ran
           /\ http' = [status |-> 200, job |-> FALSE,
                       body   |-> [bubblewrap_installed |-> c1.available,
                                   bubblewrap_working   |->
                                       IF c1.available = "True"
                                       THEN checked.cache.working
                                       ELSE "False"]]
    /\ UNCHANGED <<raceVars, truncVars, fsVars, resVars, settings, inbox, host,
                   workspaces, jobs, jobVars>>

\* POST /api/v2/execute: the event loop runs the handler for a waiting
\* request: validation of the body, and for a valid one the first lines of
\* execute_code
Receive(r) ==
    /\ pc = "idle"
    /\ inbox > 0
    /\ inbox' = inbox - 1
    /\ jobs' = jobs + 1
    /\ IF RequestValid(r)
       THEN /\ req' = [r EXCEPT !.language = validate_language(r.language)]
            /\ pc' = "resolve"
            /\ http' = <<>>
       ELSE /\ http' = [status |-> 422, job |-> FALSE, body |-> <<>>]
            /\ UNCHANGED <<pc, req>>
    /\ UNCHANGED <<raceVars, truncVars, fsVars, resVars, settings, host,
                   cache, probes, workspaces, runtime_cmd, use_bwrap,
                   full_cmd, popen_cwd, proc, outBuf, errBuf, elapsed, fired,
                   result_data, pending, outcome>>

\* execute_code: get_runtime_command and its except clause
ResolveRuntime ==
    /\ pc = "resolve"
    /\ LET r == get_runtime_command(req.language, req.version)
       IN  IF r.raised # "none"
           THEN /\ outcome' = Returned("runtime_error",
                                       RuntimeErrorResult(req, r.msg))
                /\ pc' = "respond"
                /\ UNCHANGED runtime_cmd
           ELSE /\ runtime_cmd' = r.cmd
                /\ pc' = "mkdtemp"
                /\ UNCHANGED outcome
    /\ UNCHANGED <<raceVars, truncVars, fsVars, resVars, svcVars, req,
                   use_bwrap, full_cmd, popen_cwd, proc, outBuf, errBuf,
                   elapsed, fired, result_data, pending>>

\* execute_code: entering `with tempfile.TemporaryDirectory()`; mkdtemp can
\* fail with an OSError, which only the catch-all handles
CreateWorkspace ==
    /\ pc = "mkdtemp"
    /\ \E ok \in BOOLEAN :
        IF ok
        THEN /\ workspaces' = workspaces \cup {jobs}
             /\ dirs' = dirs \cup {WorkRoot}
             /\ pc' = "prepare"
             /\ UNCHANGED outcome
        ELSE /\ outcome' = CatchAll(req, <<"OSError">>)
             /\ pc' = "respond"
             /\ UNCHANGED <<workspaces, dirs>>
    /\ UNCHANGED <<raceVars, truncVars, exes, files, resVars, settings,
                   inbox, host, cache, probes, jobs, http, req, runtime_cmd,
                   use_bwrap, full_cmd, popen_cwd, proc, outBuf, errBuf,
                   elapsed, fired, result_data, pending>>

\* execute_code: prepare_workspace and the except FileSystemException clause
PrepareWorkspace ==
    /\ pc = "prepare"
    /\ \E ev \in PrepareEvents :
        LET done == IF ev = "ok"
                    THEN prepare_workspace(req.files, workdir, dirs, files)
                    ELSE [raised |-> "FileSystemException",
                          d |-> dirs, f |-> files]
        IN  /\ dirs' = done.d
            /\ files' = done.f
            /\ IF done.raised = "none"
               THEN /\ pc' = "build"
                    /\ UNCHANGED <<outcome, pending>>
               ELSE /\ outcome' = Returned("fs_error",
                           FsErrorResult(req,
                               <<"Failed to prepare workspace: ", "OSError">>))
                    /\ pending' = "return"
                    /\ pc' = "cleanup"
    /\ UNCHANGED <<raceVars, truncVars, exes, resVars, svcVars, req,
                   runtime_cmd, use_bwrap, full_cmd, popen_cwd, proc, outBuf,
                   errBuf, elapsed, fired, result_data>>

\* execute_code: cmd_inside, check_bubblewrap_working and the command built
\* for the mode it chose
SelectMode ==
    /\ pc = "build"
    /\ LET main_file  == req.files[1].name
           cmd_inside == runtime_cmd \o <<main_file>> \o req.args
           checked    == check_bubblewrap_working(cache)
           use        == checked.cache.working = "True"
       IN  /\ cache' = checked.cache
           /\ probes' = probes + checked.ran
           /\ use_bwrap' = use
           /\ full_cmd' = IF use
                          THEN build_bubblewrap_command(workdir, cmd_inside,
                                                        req.internet)
                          ELSE build_direct_command(workdir, cmd_inside)
    /\ pc' = "spawn"
    /\ UNCHANGED <<raceVars, truncVars, fsVars, resVars, settings, inbox, host,
                   workspaces,
                   jobs, http, req, runtime_cmd, popen_cwd, proc,
                   outBuf, errBuf, elapsed, fired, result_data, pending,
                   outcome>>

\* what can happen in subprocess.Popen: the child is started, fork or exec
\* fails, or a setrlimit call of the limiter fails in the forked child
PopenEvents == {"ok", "OSError", "setrlimit"}

\* (mutant) a limiter that passes over a failed setrlimit call
PopenLenient(how) ==
    CASE how = "ok"        -> [started |-> TRUE, limits |-> "set"]
      [] how = "OSError"   ->
            [started |-> FALSE,
             msg     |-> <<"Failed to execute sandboxed process: ", "OSError">>]
      [] how = "setrlimit" -> [started |-> TRUE, limits |-> "unset"]

\* subprocess.Popen with preexec_fn=limiter: the child runs the program with
\* its limits set; an OSError of fork or exec is raised as it is; set_limits
\* turns a failed setrlimit into a RuntimeError, on which the forked child
\* ends before exec and Popen raises a SubprocessError.  The two except
\* clauses of _run_sandboxed_process make the messages
Popen(how) ==
    CASE how = "ok"        -> [started |-> TRUE, limits |-> "set"]
      [] how = "OSError"   ->
            [started |-> FALSE,
             msg     |-> <<"Failed to execute sandboxed process: ", "OSError">>]
      [] how = "setrlimit" ->
            [started |-> FALSE,
             msg     |-> <<"Unexpected error during execution: ",
                           "Exception occurred in preexec_fn.">>]

\* (mutant) a supervisor that passes no cwd in either mode
PopenCwdUnset(use) == <<>>

\* process_args["cwd"]: the workspace when bubblewrap is not used, and not
\* set (<<>>) when it is
PopenCwd(use) == IF ~use THEN workdir ELSE <<>>

\* _run_sandboxed_process: subprocess.Popen.  It starts the child or raises;
\* execute_code turns what it raises into the sandbox error result
Spawn ==
    /\ pc = "spawn"
    /\ \E how \in PopenEvents :
        LET popen == Popen(how)
        IN  IF popen.started
            THEN /\ proc' = [launcher |-> IF use_bwrap THEN "running"
                                          ELSE "none",
                             prog     |-> "running",
                             code     |-> 0,
                             bg       |-> "none",
                             reaped   |-> FALSE,
                             limits   |-> popen.limits,
                             unsent   |-> Len(req.stdin),
                             inpipe   |-> 0]
                 /\ popen_cwd' = PopenCwd(use_bwrap)
                 /\ pc' = "communicate"
                 /\ UNCHANGED <<outcome, pending>>
            ELSE /\ outcome' = Returned("sandbox_error",
                                        SandboxErrorResult(req, popen.msg))
                 /\ pending' = "return"
                 /\ pc' = "cleanup"
                 /\ UNCHANGED <<proc, popen_cwd>>
    /\ elapsed' = 0
    /\ UNCHANGED <<raceVars, truncVars, fsVars, resVars, svcVars, req,
                   runtime_cmd, use_bwrap, full_cmd, outBuf, errBuf, fired,
                   result_data>>

\* ---- what the program does while the supervisor waits

\* what the program writes to its stdout and to its stderr
StdoutWrites == {<<"o">>, <<"o", "FF">>, Repeat(<<"x">>, LongLen)}
StderrWrites == {<<"e">>, Repeat(<<"e">>, LongLen)}

Supervising == pc \in {"communicate", "drain"}

\* the program writes to stdout, and communicate reads it
ProgWriteStdout ==
    /\ Supervising /\ proc.prog = "running" /\ outBuf = <<>>
    /\ \E data \in StdoutWrites : outBuf' = data
    /\ UNCHANGED <<raceVars, truncVars, fsVars, resVars, svcVars, pc, req,
                   runtime_cmd, use_bwrap, full_cmd, popen_cwd, proc, errBuf,
                   elapsed, fired, result_data, pending, outcome>>

\* the program writes to stderr, and communicate reads it
ProgWriteStderr ==
    /\ Supervising /\ proc.prog = "running" /\ errBuf = <<>>
    /\ \E data \in StderrWrites : errBuf' = data
    /\ UNCHANGED <<raceVars, truncVars, fsVars, resVars, svcVars, pc, req,
                   runtime_cmd, use_bwrap, full_cmd, popen_cwd, proc, outBuf,
                   elapsed, fired, result_data, pending, outcome>>

\* the program forks a background process, which inherits its pipes
ProgFork ==
    /\ Supervising /\ proc.prog = "running" /\ proc.bg = "none"
    /\ proc' = [proc EXCEPT !.bg = "piped"]
    /\ UNCHANGED <<raceVars, truncVars, fsVars, resVars, svcVars, pc, req,
                   runtime_cmd, use_bwrap, full_cmd, popen_cwd, outBuf,
                   errBuf, elapsed, fired, result_data, pending, outcome>>

\* the background process closes its stdout and stderr
BgDetach ==
    /\ proc.bg = "piped"
    /\ proc' = [proc EXCEPT !.bg = "detached"]
    /\ UNCHANGED <<raceVars, truncVars, fsVars, resVars, svcVars, pc, req,
                   runtime_cmd, use_bwrap, full_cmd, popen_cwd, outBuf,
                   errBuf, elapsed, fired, result_data, pending, outcome>>

\* the background process ends
BgExit ==
    /\ proc.bg \in {"piped", "detached"}
    /\ proc' = [proc EXCEPT !.bg = "dead"]
    /\ UNCHANGED <<raceVars, truncVars, fsVars, resVars, svcVars, pc, req,
                   runtime_cmd, use_bwrap, full_cmd, popen_cwd, outBuf,
                   errBuf, elapsed, fired, result_data, pending, outcome>>

\* the program ends with status c; a running bwrap ends with it
ProgExit(c) ==
    /\ proc.prog = "running"
    /\ proc' = [proc EXCEPT
                  !.prog = "exited",
                  !.launcher = IF @ = "running" THEN "exited" ELSE @,
                  !.code = IF proc.launcher = "running" THEN LauncherStatus(c)
                           ELSE IF proc.launcher = "none" THEN c
                           ELSE @]
    /\ UNCHANGED <<raceVars, truncVars, fsVars, resVars, svcVars, pc, req,
                   runtime_cmd, use_bwrap, full_cmd, popen_cwd, outBuf,
                   errBuf, elapsed, fired, result_data, pending, outcome>>

\* half a second passes; a communicate whose timeout has expired raises
\* before more time passes
Tick ==
    /\ \/ pc = "communicate" /\ elapsed < req.time_limit + DeadlineMargin
       \/ pc = "drain"
            /\ elapsed < req.time_limit + DeadlineMargin + DrainGrace
    /\ elapsed' = elapsed + 1
    /\ UNCHANGED <<raceVars, truncVars, fsVars, resVars, svcVars, pc, req,
                   runtime_cmd, use_bwrap, full_cmd, popen_cwd, proc, outBuf,
                   errBuf, fired, result_data, pending, outcome>>

\* ---- _run_sandboxed_process after Popen

\* (mutant) a communicate called without timeout
ExpiredNever(deadline) == FALSE

\* communicate(timeout=...): the time given to the call is used up
Expired(deadline) == elapsed = deadline

\* what a communicate that ends gives: the decoded streams, or the
\* UnicodeDecodeError of text=True on bytes that are no UTF-8
Decoded == Decodable(outBuf) /\ Decodable(errBuf)

DecodeFailure ==
    Returned("sandbox_error",
             SandboxErrorResult(req, <<"Unexpected error during execution: ",
                                       "UnicodeDecodeError">>))

\* proc.communicate(input, timeout=time_limit + 0.5) returns: the pipes are
\* at end of file and the child has been waited for
CommunicateReturn ==
    /\ pc = "communicate"
    /\ ~PipesOpen /\ Child = "exited"
    /\ proc' = [proc EXCEPT !.reaped = TRUE]
    /\ IF Decoded
       THEN /\ result_data' =
                  [stdout    |-> DecodeIgnore(outBuf),
                   stderr    |-> DecodeIgnore(errBuf),
                   exit_code |-> proc.code,
                   signal    |-> IF proc.code < 0 THEN SignalName(proc.code)
                                 ELSE "None"]
            /\ pending' = "assemble"
            /\ UNCHANGED outcome
       ELSE /\ outcome' = DecodeFailure
            /\ pending' = "return"
            /\ UNCHANGED result_data
    /\ pc' = "cleanup"
    /\ UNCHANGED <<raceVars, truncVars, fsVars, resVars, svcVars, req,
                   runtime_cmd, use_bwrap, full_cmd, popen_cwd, outBuf,
                   errBuf, elapsed, fired>>

\* the first communicate raises TimeoutExpired, a write end of the pipes
\* being still open, and proc.kill(): SIGKILL to the child if it still runs
\* (kill polls first, which reaps a child that has ended)
CommunicateTimeout ==
    /\ pc = "communicate"
    /\ Expired(req.time_limit + DeadlineMargin)
    /\ PipesOpen
    /\ fired' = IF Child = "running" THEN "child_running" ELSE "child_ended"
    /\ proc' = IF Child = "running"
               THEN IF use_bwrap
                    THEN [proc EXCEPT !.launcher = "killed", !.code = -9]
                    ELSE [proc EXCEPT !.prog = "killed", !.code = -9]
               ELSE [proc EXCEPT !.reaped = TRUE]
    /\ pc' = "drain"
    /\ UNCHANGED <<raceVars, truncVars, fsVars, resVars, svcVars, req,
                   runtime_cmd, use_bwrap, full_cmd, popen_cwd, outBuf,
                   errBuf, elapsed, result_data, pending, outcome>>

\* proc.communicate(timeout=1) returns: the pipes are at end of file and the
\* child has been waited for
DrainReturn ==
    /\ pc = "drain"
    /\ ~PipesOpen
    /\ proc' = [proc EXCEPT !.reaped = TRUE]
    /\ IF Decoded
       THEN /\ result_data' =
                  [stdout    |-> DecodeIgnore(outBuf),
                   stderr    |-> TimeoutBanner \o DecodeIgnore(errBuf),
                   exit_code |-> 124,
                   signal    |-> "SIGKILL"]
            /\ pending' = "assemble"
            /\ UNCHANGED outcome
       ELSE /\ outcome' = DecodeFailure
            /\ pending' = "return"
            /\ UNCHANGED result_data
    /\ pc' = "cleanup"
    /\ UNCHANGED <<raceVars, truncVars, fsVars, resVars, svcVars, req,
                   runtime_cmd, use_bwrap, full_cmd, popen_cwd, outBuf,
                   errBuf, elapsed, fired>>

\* proc.communicate(timeout=1) raises TimeoutExpired, a write end of the
\* pipes being still open: stdout, stderr = "", ""
DrainTimeout ==
    /\ pc = "drain"
    /\ Expired(req.time_limit + DeadlineMargin + DrainGrace)
    /\ PipesOpen
    /\ result_data' = [stdout    |-> <<>>,
                       stderr    |-> TimeoutBanner \o <<>>,
                       exit_code |-> 124,
                       signal    |-> "SIGKILL"]
    /\ pending' = "assemble"
    /\ pc' = "cleanup"
    /\ UNCHANGED <<raceVars, truncVars, fsVars, resVars, svcVars, req,
                   runtime_cmd, use_bwrap, full_cmd, popen_cwd, proc, outBuf,
                   errBuf, elapsed, fired, outcome>>

\* ---- execute_code after the supervisor

\* leaving the with block: TemporaryDirectory.cleanup removes the tree.  A
\* process of the job that is still alive can create entries while rmtree
\* runs, and then rmdir fails with ENOTEMPTY: the OSError leaves the
\* directory in place and replaces the result on its way out
Cleanup ==
    /\ pc = "cleanup"
    /\ \E removed \in (IF JobAlive THEN BOOLEAN ELSE {TRUE}) :
        IF removed
        THEN /\ workspaces' = workspaces \ {jobs}
             /\ dirs' = {q \in dirs : ~Under(q, WorkRoot)}
             /\ files' = {q \in files : ~Under(q, WorkRoot)}
             /\ pc' = IF pending = "return" THEN "respond" ELSE "assemble"
             /\ UNCHANGED outcome
        ELSE /\ outcome' = CatchAll(req, <<"OSError">>)
             /\ pc' = "respond"
             /\ UNCHANGED <<workspaces, dirs, files>>
    /\ UNCHANGED <<raceVars, truncVars, exes, resVars, settings, inbox, host,
                   cache, probes,
                   jobs, http, req, runtime_cmd, use_bwrap, full_cmd,
                   popen_cwd, proc, outBuf, errBuf, elapsed, fired,
                   result_data, pending>>

\* the truncation of the streams and the last return statement
Assemble ==
    /\ pc = "assemble"
    /\ outcome' = Returned("assembled", AssembledResult(req, result_data))
    /\ pc' = "respond"
    /\ UNCHANGED <<raceVars, truncVars, fsVars, resVars, svcVars, req,
                   runtime_cmd, use_bwrap, full_cmd, popen_cwd, proc, outBuf,
                   errBuf, elapsed, fired, result_data, pending>>

\* routes.execute: the result goes out as the response body; an exception
\* from execute_code would go out as HTTP 500
Respond ==
    /\ pc = "respond"
    /\ http' = IF outcome.kind = "returned"
               THEN [status |-> 200, job |-> TRUE, body |-> outcome.result]
               ELSE [status |-> 500, job |-> TRUE, body |-> <<>>]
    /\ pc' = "idle" /\ req' = <<>> /\ runtime_cmd' = <<>> /\ use_bwrap' = FALSE
    /\ full_cmd' = <<>> /\ popen_cwd' = <<>> /\ proc' = NoProc
    /\ outBuf' = <<>> /\ errBuf' = <<>> /\ elapsed' = 0 /\ fired' = "no"
    /\ result_data' = <<>> /\ pending' = "none" /\ outcome' = <<>>
    /\ UNCHANGED <<raceVars, truncVars, fsVars, resVars, settings, inbox, host,
                   cache, probes,
                   workspaces, jobs>>

Next ==
    \/ Submit
    \/ Health
    \/ \E r \in Requests : Receive(r)
    \/ ResolveRuntime
    \/ CreateWorkspace
    \/ PrepareWorkspace
    \/ SelectMode
    \/ Spawn
    \/ ProgWriteStdout
    \/ ProgWriteStderr
    \/ ProgFork
    \/ BgDetach
    \/ BgExit
    \/ \E c \in ExitCodes : ProgExit(c)
    \/ Tick
    \/ CommunicateReturn
    \/ CommunicateTimeout
    \/ DrainReturn
    \/ DrainTimeout
    \/ Cleanup
    \/ Assemble
    \/ Respond

Spec == Init /\ [][Next]_vars

----------------------------------------------------------------------------
(* SpecCompose: the command composition of execute_code (SelectMode) on    *)
(* bounded requests.  A job starts where execute_code has resolved the     *)
(* runtime and prepared the workspace.                                     *)

MaxArgs == 2     \* a request has at most MaxArgs args

ArgVerbose == <<"-", "v">>

\* the args tried: what a program takes, and what the launcher would read
ComposeArgs ==
    UNION {[1..n -> {ArgVerbose, ArgSep, ArgUnshareNet}] : n \in 0..MaxArgs}

\* names of the first request file (validate_name refuses neither)
ComposeNames == {MainPy, ArgSep}

ComposeVersion == <<"3", ".">>

ComposeRequests ==
    [language     : {"python"},
     version      : {ComposeVersion},
     files        : {<<[name |-> n, content |-> <<"x">>]>> : n \in ComposeNames},
     stdin        : {<<>>},
     args         : ComposeArgs,
     time_limit   : {1},
     memory_limit : {256},
     internet     : BOOLEAN]

InitCompose ==
    /\ TruncIdle
    /\ RaceIdle
    /\ ResolveIdle
    /\ workspaces = {1} /\ jobs = 1 /\ http = <<>> /\ inbox = 0
    /\ dirs = ServiceFs.d \cup {WorkRoot}
    /\ exes = ServiceFs.x
    /\ files \in {ServiceFs.f \cup {Append(WorkRoot, n)} : n \in ComposeNames}
    /\ runtime_cmd = get_runtime_command("python", ComposeVersion).cmd
    /\ settings \in SettingsChoices
    /\ host \in HostChoices
    /\ cache = [available |-> "None", working |-> "None"]
    /\ probes = 0
    /\ pc = "build"
    /\ req \in ComposeRequests
    /\ Append(WorkRoot, req.files[1].name) \in files
    /\ use_bwrap = FALSE /\ full_cmd = <<>> /\ popen_cwd = <<>>
    /\ proc = NoProc /\ outBuf = <<>> /\ errBuf = <<>> /\ elapsed = 0
    /\ fired = "no" /\ result_data = <<>> /\ pending = "none"
    /\ outcome = <<>>

NextCompose == SelectMode

SpecCompose == InitCompose /\ [][NextCompose]_vars

----------------------------------------------------------------------------
(* prepare_workspace on the file names validation accepts                  *)

MaxFiles == 2

\* file names File.validate_name accepts: not empty, not blank, no leading
\* '/'
PrepareNames ==
    {MainPy, LibPy,
     <<".", ".", "/", "x">>,
     <<"a", "/", ".", ".", "/", ".", ".", "/", "e">>,
     <<".", ".">>,
     <<"a", "/", "b", "/", "c">>}

PrepareFiles ==
    UNION {[1..n -> {[name |-> nm, content |-> <<"x">>] : nm \in PrepareNames}]
              : n \in 1..MaxFiles}

PrepareRequests ==
    [language     : {"python"},
     version      : {ComposeVersion},
     files        : PrepareFiles,
     stdin        : {<<>>},
     args         : {<<>>},
     time_limit   : {1},
     memory_limit : {256},
     internet     : {FALSE}]

\* a job whose runtime is resolved and whose workspace directory was just made
InitPrepare ==
    /\ TruncIdle
    /\ RaceIdle
    /\ ResolveIdle
    /\ workspaces = {1} /\ jobs = 1 /\ http = <<>> /\ inbox = 0
    /\ dirs = ServiceFs.d \cup {WorkRoot}
    /\ exes = ServiceFs.x /\ files = ServiceFs.f
    /\ runtime_cmd = get_runtime_command("python", ComposeVersion).cmd
    /\ settings \in SettingsChoices
    /\ host \in HostChoices
    /\ cache = [available |-> "None", working |-> "None"]
    /\ probes = 0
    /\ pc = "prepare"
    /\ req \in PrepareRequests
    /\ use_bwrap = FALSE /\ full_cmd = <<>> /\ popen_cwd = <<>>
    /\ proc = NoProc /\ outBuf = <<>> /\ errBuf = <<>> /\ elapsed = 0
    /\ fired = "no" /\ result_data = <<>> /\ pending = "none"
    /\ outcome = <<>>

NextPrepare == PrepareWorkspace

SpecPrepare == InitPrepare /\ [][NextPrepare]_vars

----------------------------------------------------------------------------
(* validation of the limit fields under every configuration                *)

\* configured maxima: the shipped ones and lower ones an operator sets
MaxTimeChoices   == {30, DefaultMaxTimeLimit}
MaxMemoryChoices == {128, DefaultMaxMemoryLimit}

ValidateSettings ==
    {[use_bubblewrap   |-> TRUE, max_output_size |-> BigCap,
      max_stderr_size  |-> BigCap,
      max_time_limit   |-> t, max_memory_limit |-> m] :
        t \in MaxTimeChoices, m \in MaxMemoryChoices}

\* request bodies around every edge of the ranges
BoundaryRequests ==
    [language     : {"python", "ruby"},
     version      : {ComposeVersion},
     files        : {<<[name |-> MainPy, content |-> <<"x">>]>>},
     stdin        : {<<>>},
     args         : {<<>>},
     time_limit   : {0, 1, 30, 31, TimeLimitLe, TimeLimitLe + 1},
     memory_limit : {MemoryLimitGe - 1, MemoryLimitGe, 128, 129,
                     MemoryLimitLe, MemoryLimitLe + 1},
     internet     : {TRUE}]

InitValidate ==
    /\ TruncIdle
    /\ RaceIdle
    /\ ResolveIdle
    /\ dirs = ServiceFs.d /\ exes = ServiceFs.x /\ files = ServiceFs.f
    /\ settings \in ValidateSettings
    /\ host \in HostChoices
    /\ cache = [available |-> "None", working |-> "None"]
    /\ probes = 0
    /\ workspaces = {} /\ jobs = 0 /\ http = <<>> /\ inbox = 0
    /\ JobIdle

NextValidate ==
    \/ Submit
    \/ \E r \in BoundaryRequests : Receive(r)

SpecValidate == InitValidate /\ [][NextValidate]_vars

----------------------------------------------------------------------------
(* check_bubblewrap_working called by several threads at once               *)

RaceCallers == 2

\* what one run of the probe command can give on a host: the host's own
\* outcome, and on a host where the probe works also subprocess.run's
\* TimeoutExpired after 2 s
ProbeRuns(h) ==
    IF h.probe = "exit0" THEN {"exit0", "timeout"} ELSE {h.probe}

CallerStart == [pc |-> "check", avail |-> "None", rc |-> "none", ret |-> "None"]

InitRace ==
    /\ TruncIdle
    /\ FsIdle
    /\ ResolveIdle
    /\ JobIdle
    /\ settings \in SettingsChoices
    /\ host \in HostChoices
    /\ cache = [available |-> "None", working |-> "None"]
    /\ probes = 0
    /\ workspaces = {} /\ jobs = 0 /\ http = <<>> /\ inbox = 0
    /\ callers = [t \in 1..RaceCallers |-> CallerStart]

RaceFrame == UNCHANGED <<truncVars, fsVars, resVars, settings, host,
                         workspaces, jobs, http, inbox, jobVars>>

\* `if cls._bwrap_working is not None: return cls._bwrap_working`
RaceCheck(t) ==
    /\ callers[t].pc = "check"
    /\ callers' = [callers EXCEPT ![t] =
                      IF cache.working # "None"
                      THEN [@ EXCEPT !.pc = "done", !.ret = cache.working]
                      ELSE [@ EXCEPT !.pc = "avail"]]
    /\ UNCHANGED <<cache, probes>>
    /\ RaceFrame

\* the call of validate_bubblewrap_available
RaceAvail(t) ==
    /\ callers[t].pc = "avail"
    /\ cache' = validate_bubblewrap_available(cache)
    /\ callers' = [callers EXCEPT ![t] =
                      [@ EXCEPT !.pc = "decide", !.avail = cache'.available]]
    /\ UNCHANGED probes
    /\ RaceFrame

\* `if not ...: cls._bwrap_working = False; return False`
RaceDecide(t) ==
    /\ callers[t].pc = "decide"
    /\ IF callers[t].avail # "True"
       THEN /\ cache' = [cache EXCEPT !.working = "False"]
            /\ callers' = [callers EXCEPT ![t] =
                              [@ EXCEPT !.pc = "done", !.ret = "False"]]
       ELSE /\ callers' = [callers EXCEPT ![t] = [@ EXCEPT !.pc = "probe"]]
            /\ UNCHANGED cache
    /\ UNCHANGED probes
    /\ RaceFrame

\* subprocess.run of the probe command
RaceProbe(t) ==
    /\ callers[t].pc = "probe"
    /\ \E o \in ProbeRuns(host) :
          callers' = [callers EXCEPT ![t] = [@ EXCEPT !.pc = "store", !.rc = o]]
    /\ probes' = probes + 1
    /\ UNCHANGED cache
    /\ RaceFrame

\* `cls._bwrap_working = (result.returncode == 0)` or the except clause
RaceStore(t) ==
    /\ callers[t].pc = "store"
    /\ cache' = [cache EXCEPT !.working = BoolStr(callers[t].rc = "exit0")]
    /\ callers' = [callers EXCEPT ![t] = [@ EXCEPT !.pc = "return"]]
    /\ UNCHANGED probes
    /\ RaceFrame

\* the last `return cls._bwrap_working`, which reads the attribute again
RaceReturn(t) ==
    /\ callers[t].pc = "return"
    /\ callers' = [callers EXCEPT ![t] =
                      [@ EXCEPT !.pc = "done", !.ret = cache.working]]
    /\ UNCHANGED <<cache, probes>>
    /\ RaceFrame

NextRace ==
    \E t \in 1..RaceCallers :
        \/ RaceCheck(t)
        \/ RaceAvail(t)
        \/ RaceDecide(t)
        \/ RaceProbe(t)
        \/ RaceStore(t)
        \/ RaceReturn(t)

SpecRace == InitRace /\ [][NextRace]_vars

----------------------------------------------------------------------------
(* the execute endpoint under fair scheduling, with requests that carry    *)
(* stdin data                                                              *)

\* how much of the stdin data the pipe holds while nobody reads it
PipeCap == 1

\* stdin data larger than the pipe
LongStdin == Repeat(<<"i">>, PipeCap + 1)

LiveRequests ==
    [language     : {"python"},
     version      : {<<"3", ".">>, <<"9">>},
     files        : {<<[name |-> MainPy, content |-> <<"x">>]>>},
     stdin        : {<<>>, LongStdin},
     args         : {<<>>},
     time_limit   : {1},
     memory_limit : {256},
     internet     : {TRUE}]

InitLive ==
    /\ Init
    /\ settings.use_bubblewrap /\ settings.max_output_size = BigCap
    /\ host.probe # "exit1"

\* communicate writes the input to the child's stdin while the pipe has room
SupWriteStdin ==
    /\ Supervising
    /\ proc.unsent > 0 /\ proc.inpipe < PipeCap
    /\ proc' = [proc EXCEPT !.unsent = @ - 1, !.inpipe = @ + 1]
    /\ UNCHANGED <<raceVars, truncVars, fsVars, resVars, svcVars, pc, req,
                   runtime_cmd, use_bwrap, full_cmd, popen_cwd, outBuf,
                   errBuf, elapsed, fired, result_data, pending, outcome>>

\* the program reads from its stdin
ProgReadStdin ==
    /\ proc.prog = "running" /\ proc.inpipe > 0
    /\ proc' = [proc EXCEPT !.inpipe = @ - 1]
    /\ UNCHANGED <<raceVars, truncVars, fsVars, resVars, svcVars, pc, req,
                   runtime_cmd, use_bwrap, full_cmd, popen_cwd, outBuf,
                   errBuf, elapsed, fired, result_data, pending, outcome>>

\* the steps of the handler and of the supervisor: the code of the service,
\* which the interpreter keeps running
Handler ==
    \/ ResolveRuntime
    \/ CreateWorkspace
    \/ PrepareWorkspace
    \/ SelectMode
    \/ Spawn
    \/ CommunicateReturn
    \/ CommunicateTimeout
    \/ DrainReturn
    \/ DrainTimeout
    \/ Cleanup
    \/ Assemble
    \/ Respond

NextLive ==
    \/ Submit
    \/ Health
    \/ \E r \in LiveRequests : Receive(r)
    \/ Handler
    \/ SupWriteStdin
    \/ ProgReadStdin
    \/ ProgWriteStdout
    \/ ProgWriteStderr
    \/ ProgFork
    \/ BgDetach
    \/ BgExit
    \/ \E c \in ExitCodes : ProgExit(c)
    \/ Tick

\* the positions of a handler
PcValues ==
    {"idle", "resolve", "mkdtemp", "prepare", "build", "spawn", "communicate",
     "drain", "cleanup", "assemble", "respond"}

\* a step of Handler can be taken: the straight-line positions always have
\* one; a communicate returns at end of file with the child gone, or raises
\* when its timeout expires
HandlerReady ==
    \/ pc \in {"resolve", "mkdtemp", "prepare", "build", "spawn", "cleanup",
                "assemble", "respond"}
    \/ /\ pc = "communicate"
       /\ \/ ~PipesOpen /\ Child = "exited"
          \/ Expired(req.time_limit + DeadlineMargin) /\ PipesOpen
    \/ /\ pc = "drain"
       /\ \/ ~PipesOpen
          \/ Expired(req.time_limit + DeadlineMargin + DrainGrace) /\ PipesOpen

\* the steps of Handler seen through pc: each of them moves pc, and from a
\* position of the handler nothing else does
HandlerRuns == HandlerReady /\ pc' \in PcValues

\* the service's own steps are taken while they can be, and time passes;
\* nothing is assumed about what the program and its descendants do
SpecLive == InitLive /\ [][NextLive]_vars /\ WF_pc(HandlerRuns) /\ WF_vars(Tick)

----------------------------------------------------------------------------
(* SpecTrunc: truncate_output on bounded inputs                            *)

MaxRep == 30     \* an input repeats its unit at most MaxRep times
MaxCap == 52     \* the caps tried are 0 .. MaxCap

TruncUnits == {<<"x">>, <<"U+E9">>, <<"x", "U+E9">>, <<"U+E9", "x", "x">>}

TruncInputs == {Repeat(u, n) : u \in TruncUnits, n \in 0..MaxRep}

InitTrunc ==
    /\ tIn \in TruncInputs
    /\ tCap \in 0..MaxCap
    /\ tLabel \in {StdoutLabel, StderrLabel}
    /\ tOut = <<>>
    /\ tPc = "in"
    /\ FsIdle
    /\ RaceIdle
    /\ ResolveIdle
    /\ ServiceIdle

Truncate ==
    /\ tPc = "in"
    /\ tOut' = truncate_output(tIn, tCap, tLabel)
    /\ tPc' = "out"
    /\ UNCHANGED <<raceVars, tIn, tCap, tLabel, fsVars, resVars, svcVars,
                   jobVars>>

NextTrunc == Truncate

SpecTrunc == InitTrunc /\ [][NextTrunc]_vars

----------------------------------------------------------------------------
(* Claims about truncate_output (checked under SpecTrunc)                  *)

ByteLen(s) == Len(Encode(s))

\* C7: the byte length of a returned stream is at most its configured cap
\* plus the byte length of the trailer, for every cap, also a cap smaller
\* than the trailer.
C7_OutputWithinCapPlusTrailer ==
    tPc = "out" =>
        ByteLen(tOut) <= tCap + ByteLen(TruncWarning(tLabel, tCap))

\* the first k bytes of b (none when k is not positive)
FirstBytes(b, k) == SubSeq(b, 1, IF k < 0 THEN 0 ELSE k)

\* C26: truncate_output returns its input unchanged when the input has at
\* most max_size bytes; otherwise it returns the first (max_size - margin)
\* bytes of the input, margin being the byte length of the trailer, followed
\* by one trailer that names the label and the cap.
C26_TruncateShape ==
    tPc = "out" =>
        LET trailer == TruncWarning(tLabel, tCap)
            margin  == ByteLen(trailer)
        IN  IF ByteLen(tIn) <= tCap
            THEN tOut = tIn
            ELSE tOut = DecodeIgnore(FirstBytes(Encode(tIn), tCap - margin))
                        \o trailer

----------------------------------------------------------------------------
(* Claims about the registry (checked under SpecResolve)                   *)

Supported(language) == Lower(language) \in DOMAIN SUPPORTED_LANGUAGES

\* <root>/<language> as a place in the file system
BaseOf(language) == <<NmPackages, LangStr(Lower(language))>>

\* the names of the version directories installed for a language
InstalledNames(language) ==
    {d[Len(d)] : d \in {q \in dirs : /\ Len(q) = Len(BaseOf(language)) + 1
                                      /\ SubSeq(q, 1, Len(q) - 1) = BaseOf(language)}}

\* the lexicographically greatest of a set of names
Greatest(names) ==
    CHOOSE m \in names : \A n \in names \ {m} : StrLess(n, m)

\* C8: resolve chooses the directory named exactly <version> if there is
\* one, otherwise the lexicographically greatest directory whose name has
\* <version> as a prefix, and fails with RuntimeNotFound when there is none
\* or the base directory is missing.
C8_VersionResolution ==
    (rPc = "out" /\ Supported(rLang)) =>
        LET inst   == InstalledNames(rLang)
            prefix == {n \in inst : StartsWith(n, rVer)}
        IN  IF rVer \in inst
            THEN /\ rFound.raised = "none"
                 /\ RealPath(rFound.path) = Append(BaseOf(rLang), rVer)
            ELSE IF prefix # {}
            THEN /\ rFound.raised = "none"
                 /\ RealPath(rFound.path) = Append(BaseOf(rLang), Greatest(prefix))
            ELSE rFound.raised = "RuntimeNotFoundException"

\* the candidates of a language, in configured order, that exist in bin/ of
\* the directory d and are executable
Qualifying(language, d) ==
    LET names == SUPPORTED_LANGUAGES[Lower(language)].binary_names
    IN  {i \in 1..Len(names) : (d \o <<NmBin, names[i]>>) \in exes}

\* C9: when the version directory has been chosen, the binary returned is
\* the first candidate (in configured order) in its bin/ that exists and is
\* executable; when it has none, resolve fails with RuntimeNotFound, whatever
\* the other version directories hold.
C9_FirstExecutableCandidate ==
    (rPc = "out" /\ Supported(rLang) /\ rFound.raised = "none") =>
        LET d     == RealPath(rFound.path)
            names == SUPPORTED_LANGUAGES[Lower(rLang)].binary_names
            qual  == Qualifying(rLang, d)
        IN  IF qual = {}
            THEN rOut.raised = "RuntimeNotFoundException"
            ELSE /\ rOut.raised = "none"
                 /\ Len(rOut.cmd) = 1
                 /\ RealPath(rOut.cmd[1]) =
                        d \o <<NmBin, names[CHOOSE i \in qual :
                                                \A j \in qual : i <= j]>>

\* C9 witnesses: python is returned because python3 lacks the execute
\* permission; and resolve fails although another version has a binary
C9_Witness ==
    /\ rPc = "out" /\ rLang = "python" /\ rFound.raised = "none"
    /\ rOut.raised = "none"
    /\ RealPath(rFound.path) \o <<NmBin, NmPython3>> \in files
    /\ RealPath(rOut.cmd[1]) = RealPath(rFound.path) \o <<NmBin, NmPython>>

\* C30: for every version string, when resolve succeeds the version
\* directory chosen is an immediate subdirectory of <root>/<language>, and
\* the binary returned lies in its bin/.
C30_VersionDirUnderBase ==
    (rPc = "out" /\ Supported(rLang) /\ rFound.raised = "none") =>
        LET d == RealPath(rFound.path)
        IN  /\ d \in dirs
            /\ Len(d) = Len(BaseOf(rLang)) + 1
            /\ SubSeq(d, 1, Len(d) - 1) = BaseOf(rLang)
            /\ rOut.raised = "none" =>
                   SubSeq(RealPath(rOut.cmd[1]), 1, Len(d)) = d

----------------------------------------------------------------------------
(* Claims about the composed command (checked under SpecCompose)           *)

\* the command for Popen has been composed
Composed == pc = "spawn"

\* the position of the first "--" of a command
SepAt(cmd) ==
    CHOOSE i \in 1..Len(cmd) :
        cmd[i] = ArgSep /\ \A j \in 1..(i - 1) : cmd[j] # ArgSep

\* the words the launcher reads as its own: those before the first "--"
LauncherWords(cmd) == SubSeq(cmd, 1, SepAt(cmd) - 1)

\* the words after the first "--"
AfterSep(cmd) == SubSeq(cmd, SepAt(cmd) + 1, Len(cmd))

Has(list, x) == \E i \in 1..Len(list) : list[i] = x

\* C11: in jailed mode the words of the command the launcher reads (those
\* before the separator "--") contain the network-unshare option if and only
\* if the request has internet=false.
C11_UnshareNetBeforeSeparator ==
    (Composed /\ use_bwrap) =>
        /\ full_cmd[1] = ArgBwrap
        /\ Has(full_cmd, ArgSep)
        /\ Has(LauncherWords(full_cmd), ArgUnshareNet) <=> ~req.internet

\* a jailed job without internet whose own args begin with a "--"
C11_Witness ==
    /\ Composed /\ use_bwrap /\ ~req.internet
    /\ Len(req.args) = MaxArgs /\ req.args[1] = ArgSep

\* [binary_path, name of the first file, ...args]
ChildArgv == runtime_cmd \o <<req.files[1].name>> \o req.args

\* C12: in both modes the child argv is [binary_path, name of the first
\* request file, ...args in order]: in jailed mode it is all that follows the
\* first "--", in direct mode it is the whole command.
C12_ChildArgv ==
    Composed =>
        /\ Len(runtime_cmd) = 1
        /\ IF use_bwrap THEN AfterSep(full_cmd) = ChildArgv
                        ELSE full_cmd = ChildArgv

\* a job in direct mode and one in jailed mode whose file and args all spell
\* launcher words
C12_Witness ==
    /\ Composed
    /\ req.files[1].name = ArgSep
    /\ req.args = <<ArgUnshareNet, ArgSep>>
    /\ (use_bwrap \/ host.probe = "exit1")

----------------------------------------------------------------------------
(* Claims about the execute endpoint (Spec)                                *)

\* execute_code is about to hand its result to the endpoint
Returning == pc = "respond"

\* a child process was started for the job being served
ChildStarted == proc.prog # "none"

\* the result record execute_code returns
Run == outcome.result.run

\* C1: for every call of execute_code, on every exit path, the workspace
\* directory the call created has been removed by the time the call returns
\* its result.
C1_WorkspaceRemoved == Returning => jobs \notin workspaces

\* C2: for every job in which a child process was started, the child has
\* been waited for before the result is assembled, and neither the child nor
\* a descendant of it is alive when execute_code returns.
C2_ChildReapedNoSurvivor ==
    /\ (pc = "assemble" /\ ChildStarted) => proc.reaped
    /\ (Returning /\ ChildStarted) => (proc.reaped /\ ~JobAlive)

\* C3: for every job whose child has not finished when the deadline of
\* time_limit + 0.5 s expires, the returned result has exit code 124, signal
\* "SIGKILL" and a stderr that begins with the timeout banner.
C3_TimeoutResult ==
    (Returning /\ fired = "child_running") =>
        /\ Run.code = 124
        /\ Run.signal = "SIGKILL"
        /\ StartsWith(Run.stderr, TimeoutBanner)

\* the supervisor (_run_sandboxed_process) has returned or raised
SupervisorDone == ChildStarted /\ pc \in {"cleanup", "assemble", "respond"}

\* C4: for every job whose child was started, the supervisor is done within
\* time_limit + 1.5 s (three half seconds past time_limit) of starting the
\* child, whatever the child and its descendants do with their pipes.
C4_BoundedResponse == SupervisorDone => elapsed <= req.time_limit + 3

\* the deadline fired, the drain timed out as well, and a descendant still
\* holds the pipes when the supervisor is done
C4_Witness ==
    /\ SupervisorDone /\ fired = "child_running"
    /\ elapsed = req.time_limit + 3
    /\ PipesOpen

\* C5: execute_code returns an ExecResult on every path and never lets an
\* exception through, so the endpoint answers every job with HTTP 200 and
\* the result record; the catch-all gives exit code 1 and an error message.
C5_Total ==
    [][(pc = "respond" /\ pc' = "idle") =>
          /\ outcome.kind = "returned"
          /\ http'.status = 200
          /\ http'.body = outcome.result
          /\ outcome.site = "catch_all" =>
                /\ Run.code = 1
                /\ Run.message # NoMessage
                /\ Run.message[1] = "Internal error: "]_vars

\* an exception no except clause names (the teardown of the workspace
\* failed) is about to be answered
C5_Witness == Returning /\ outcome.site = "catch_all" /\ ChildStarted

C10_DirectWhenDisabled ==
    ~settings.use_bubblewrap => proc.launcher = "none"

\* C13: jobs of concurrent requests execute in parallel: a request that
\* waits is taken up whatever the job of another request is doing, so that
\* two jobs can have a live child process at the same time.
C13_ParallelJobs == inbox > 0 => ENABLED (\E r \in Requests : Receive(r))

\* C14: the capability probe is lazy and cached: the probe command has not
\* run while no query has completed, it runs at most once, the cached
\* installed and working values never change once set, and a query made
\* after the first returns the cached value.
C14_ProbeLazyCached ==
    /\ [](cache.working = "None" => probes = 0)
    /\ [](probes <= 1)
    /\ [][/\ cache.available # "None" => cache'.available = cache.available
          /\ cache.working # "None" =>
                 (cache'.working = cache.working /\ probes' = probes)
          /\ (cache.working # "None" /\ pc = "build" /\ pc' = "spawn") =>
                 use_bwrap' = (cache.working = "True")]_vars

\* the second job has been given the jailed mode and the probe ran once,
\* the first job having been through its own query (it got as far as leaving
\* its workspace behind)
C14_Witness ==
    /\ jobs = MaxJobs /\ pc = "spawn" /\ use_bwrap /\ probes = 1
    /\ 1 \in workspaces

\* Popen raised: the command was composed and no child was started
SpawnFailed == full_cmd # <<>> /\ ~ChildStarted /\ pc \in {"cleanup", "respond"}

\* C15: whenever starting the child fails (fork or exec error, or a limit
\* call of the limiter failing), the job returns the sandbox-error result
\* with exit code 1 and a message; and a program that runs has its limits
\* set.
C15_SpawnFailure ==
    /\ SpawnFailed =>
          /\ outcome.kind = "returned" /\ outcome.site = "sandbox_error"
          /\ Run.code = 1
          /\ Run.message # NoMessage
          /\ Run.message[1] \in {"Failed to execute sandboxed process: ",
                                  "Unexpected error during execution: "}
    /\ ChildStarted => proc.limits = "set"

\* the result of a job whose limiter failed is about to go out
C15_Witness ==
    /\ SpawnFailed /\ Returning
    /\ Run.message[2] = "Exception occurred in preexec_fn."

\* the runtime was resolved and the job ended before a command was composed:
\* the workspace could not be acquired or populated
WorkspaceFailed == Returning /\ runtime_cmd # <<>> /\ full_cmd = <<>>

\* C16: whenever acquiring the workspace directory or writing a request
\* file into it fails, the job returns the workspace-error result (exit code
\* 1, message naming the workspace failure) and no child is spawned.
C16_WorkspaceError ==
    WorkspaceFailed =>
        /\ outcome.site = "fs_error"
        /\ Run.code = 1
        /\ Run.message # NoMessage
        /\ Run.message[1] = "Failed to prepare workspace: "
        /\ ~ChildStarted

\* C17: every ExecResult carries a job_id and a classification.
C17_JobIdAndClassification ==
    Returning => {"job_id", "classification"} \subseteq DOMAIN outcome.result

\* C18: in every result, run.output is run.stdout followed by run.stderr,
\* the two fields as they are returned (truncated), on the error paths too.
C18_OutputIsStdoutThenStderr ==
    Returning => Run.output = Run.stdout \o Run.stderr

\* both streams are in the result, stdout cut down to its cap
C18_Witness ==
    /\ Returning /\ outcome.site = "assembled"
    /\ Run.stdout # <<>> /\ Run.stderr # <<>>
    /\ Run.stdout # result_data.stdout

\* C19: on expiry of the deadline the kill reaches the whole process group
\* of the child: after it neither the program nor a process it forked runs.
C19_KillProcessGroup ==
    [][(pc = "communicate" /\ pc' = "drain" /\ Child = "running") =>
          /\ proc'.prog # "running"
          /\ proc'.bg \notin {"piped", "detached"}]_vars

\* C20: on a timeout the supervisor returns what the child wrote to stdout
\* and stderr before the kill, also when the drain after the kill timed out.
C20_PartialOutputKept ==
    (fired # "no" /\ pending = "assemble" /\ pc \in {"cleanup", "assemble"}) =>
        /\ result_data.stdout = DecodeIgnore(outBuf)
        /\ result_data.stderr = TimeoutBanner \o DecodeIgnore(errBuf)

\* the supervisor has returned its dictionary to execute_code
SupervisorReturned == pending = "assemble" /\ pc \in {"cleanup", "assemble"}

\* C21: for every job whose child exits on its own with status c before the
\* deadline, the supervisor reports exit code c and adds no timeout banner
\* to stderr, whatever the descendants of the child do with the pipes.
C21_OwnExitStatus ==
    (SupervisorReturned /\ Child = "exited") =>
        /\ result_data.exit_code = proc.code
        /\ ~StartsWith(result_data.stderr, TimeoutBanner)

\* C27: while the supervisor drains the pipes, the bytes it holds for a
\* stream are at most the configured maximum of that stream.
C27_CaptureCapped ==
    /\ Len(outBuf) <= settings.max_output_size
    /\ Len(errBuf) <= settings.max_stderr_size

\* whether the words of run come one after another somewhere in list
HasRun(list, run) ==
    \E i \in 1..(Len(list) - Len(run) + 1) :
        SubSeq(list, i, i + Len(run) - 1) = run

Prepared ==
    /\ runtime_cmd # <<>>
    /\ jobs \in workspaces /\ WorkRoot \in dirs
    /\ \A i \in 1..Len(req.files) :
          RealPath(PathJoin(workdir, req.files[i].name)) \in files
    /\ cache.working # "None"
    /\ full_cmd # <<>>

\* C22: a child process is spawned only after runtime resolution has
\* succeeded, the workspace exists with all request files written, and the
\* capability probe has chosen the mode; when runtime resolution fails, no
\* workspace is created, the probe is not run and no child is spawned.
C22_PipelineOrder ==
    [][/\ (pc = "spawn" /\ pc' # "spawn") => Prepared
       /\ (pc = "resolve" /\ pc' = "respond") =>
             /\ UNCHANGED <<dirs, files, workspaces, cache, probes, proc,
                            full_cmd>>
             /\ ~ChildStarted']_vars

\* a child runs and the second file of the request is in its subdirectory of
\* the workspace
C22_Witness ==
    /\ ChildStarted /\ pc = "communicate"
    /\ WorkRoot \o <<<<"a">>, <<"b">>>> \in files

\* C29: for every request accepted by validation, every file and directory
\* prepare_workspace creates lies inside the job's workspace root, also for
\* names with '..' segments.
C29_WritesInsideWorkspace ==
    \A q \in (dirs \cup files) \ (ServiceFs.d \cup ServiceFs.f) :
        Under(q, WorkRoot)

\* C28: for every configuration, every request accepted at the boundary has
\* time_limit at most the configured max_time_limit and memory_limit at most
\* the configured max_memory_limit.
C28_LimitsFollowConfig ==
    pc = "resolve" =>
        /\ req.time_limit <= settings.max_time_limit
        /\ req.memory_limit <= settings.max_memory_limit

\* C25: when two callers enter check_bubblewrap_working before either has
\* stored a result, the probe runs at most twice, every caller gets the same
\* value, and the value stored in the cache is never replaced by a different
\* one.
C25_ProbeRace ==
    /\ [](/\ probes <= 2
          /\ \A a, b \in 1..RaceCallers :
                (callers[a].pc = "done" /\ callers[b].pc = "done") =>
                    callers[a].ret = callers[b].ret)
    /\ [][cache.working # "None" => cache'.working = cache.working]_vars

\* C23: under fair scheduling every call of execute_code eventually returns
\* a result, whatever the child does: also when it never reads a stdin
\* larger than the pipe, fills stdout or stderr, or never exits.
C23_EventuallyReturns == (pc = "resolve") ~> Returning

\* a result is returned for a child that never exited and left stdin data
\* unread in a full pipe, with more data still unsent
C23_Witness ==
    /\ Returning /\ fired = "child_running"
    /\ proc.inpipe = PipeCap /\ proc.unsent > 0

============================================================================
